---- MODULE Spec2Model ----
(***************************************************************************)
(* Model of build_tools/softinstall.py: toolchain-generation resolution,   *)
(* job naming, job-script submission and the build-job orchestrator.       *)
(*                                                                         *)
(* Python strings are sequences of one-character strings, so that the      *)
(* regular expressions of the source are evaluated character by character. *)
(* A Python value is a record [kind, val]: None, False or a string.        *)
(***************************************************************************)
EXTENDS Integers, Sequences, FiniteSets, TLC

VARIABLES
    \* one call of set_toolchain_generation
    tc_pc, tc_easyconfig, tc_user_toolchain, tc_result, tc_log,
    \* one call of mk_job_name
    jn_pc, jn_easyconfig, jn_host_arch, jn_target_arch, jn_result,
    \* one call of submit_build_job / submit_job_script
    pc, entry, job_options, keep_job, sub_options, cluster, local_exec, dry_run,
    job_script, job_file, files, spawned, sjs_ret, ret, log, steps

tc_vars == <<tc_pc, tc_easyconfig, tc_user_toolchain, tc_result, tc_log>>
jn_vars == <<jn_pc, jn_easyconfig, jn_host_arch, jn_target_arch, jn_result>>
sub_vars == <<pc, entry, job_options, keep_job, sub_options, cluster, local_exec, dry_run,
              job_script, job_file, files, spawned, sjs_ret, ret, log, steps>>
vars == <<tc_vars, jn_vars, sub_vars>>

----------------------------------------------------------------------------
(* Python values *)

None == [kind |-> "None", val |-> <<>>]
False == [kind |-> "False", val |-> <<>>]
PyStr(s) == [kind |-> "str", val |-> s]

\* the concatenation of a sequence of strings
RECURSIVE Concat(_)
Concat(ss) == IF ss = <<>> THEN <<>> ELSE Head(ss) \o Concat(Tail(ss))

\* every sequence of at most n members of S
RECURSIVE SeqsUpTo(_, _)
SeqsUpTo(S, n) ==
    IF n = 0 THEN {<<>>}
    ELSE LET shorter == SeqsUpTo(S, n - 1)
         IN  shorter \cup {Append(s, x) : s \in shorter, x \in S}

\* s occurs in t as a contiguous run of characters
IsSubstring(s, t) ==
    \E i \in 1..(Len(t) - Len(s) + 1) : SubSeq(t, i, i + Len(s) - 1) = s

----------------------------------------------------------------------------
(* The regular expressions of the source, as Python's re evaluates them *)

Digits == {"0", "1", "2", "3", "4", "5", "6", "7", "8", "9"}

\* r"20[1-2][0-9][ab]": one character class per position
TOOLCHAIN_FORMAT == << {"2"}, {"0"}, {"1", "2"}, Digits, {"a", "b"} >>

\* the classes match s at positions i .. i + Len(classes) - 1
ClassesMatchAt(classes, s, i) ==
    /\ i >= 1
    /\ i + Len(classes) - 1 <= Len(s)
    /\ \A k \in 1..Len(classes) : s[i + k - 1] \in classes[k]

\* re.findall: the non-overlapping matches, scanning from the left
RECURSIVE FindallFrom(_, _, _)
FindallFrom(classes, s, i) ==
    IF i + Len(classes) - 1 > Len(s) THEN <<>>
    ELSE IF ClassesMatchAt(classes, s, i)
         THEN <<SubSeq(s, i, i + Len(classes) - 1)>>
                  \o FindallFrom(classes, s, i + Len(classes))
         ELSE FindallFrom(classes, s, i + 1)

re_findall(classes, s) == FindallFrom(classes, s, 1)

\* re.match('^' + classes + '$', s): '$' matches at the end of the string and
\* also just before a newline that ends the string
re_match_anchored(classes, s) ==
    /\ ClassesMatchAt(classes, s, 1)
    /\ \/ Len(s) = Len(classes)
       \/ /\ Len(s) = Len(classes) + 1
          /\ s[Len(s)] = "\n"

\* one pattern character against one subject character: an unescaped '.' is
\* the wildcard (any character but a newline), every other character of the
\* patterns used here stands for itself
PatCharMatches(p, c) == IF p = "." THEN c # "\n" ELSE p = c

PatMatchesAt(pat, s, i) ==
    /\ i >= 1
    /\ i + Len(pat) - 1 <= Len(s)
    /\ \A k \in 1..Len(pat) : PatCharMatches(pat[k], s[i + k - 1])

\* re.search(pat, s) finds a match
re_search(pat, s) == \E i \in 1..(Len(s) - Len(pat) + 1) : PatMatchesAt(pat, s, i)

----------------------------------------------------------------------------
(* set_toolchain_generation *)

\* SUBTOOLCHAINS, a dict: its items() come in the order of definition
SUBTOOLCHAINS ==
  <<
    \* '2023a': ['GCCcore-12.3.0', 'GCC-12.3.0', 'intel-compilers-2023.1.0']
    [main_tc |-> <<"2","0","2","3","a">>,
     sub_tc |-> << <<"G","C","C","c","o","r","e","-","1","2",".","3",".","0">>,
                 <<"G","C","C","-","1","2",".","3",".","0">>,
                 <<"i","n","t","e","l","-","c","o","m","p","i","l","e","r","s","-","2","0","2","3",".","1",".","0">> >>],
    \* '2022b': ['GCCcore-12.2.0', 'GCC-12.2.0', 'intel-compilers-2022.2.1']
    [main_tc |-> <<"2","0","2","2","b">>,
     sub_tc |-> << <<"G","C","C","c","o","r","e","-","1","2",".","2",".","0">>,
                 <<"G","C","C","-","1","2",".","2",".","0">>,
                 <<"i","n","t","e","l","-","c","o","m","p","i","l","e","r","s","-","2","0","2","2",".","2",".","1">> >>],
    \* '2022a': ['GCCcore-11.3.0', 'GCC-11.3.0', 'intel-compilers-2022.1.0']
    [main_tc |-> <<"2","0","2","2","a">>,
     sub_tc |-> << <<"G","C","C","c","o","r","e","-","1","1",".","3",".","0">>,
                 <<"G","C","C","-","1","1",".","3",".","0">>,
                 <<"i","n","t","e","l","-","c","o","m","p","i","l","e","r","s","-","2","0","2","2",".","1",".","0">> >>],
    \* '2021b': ['GCCcore-11.2.0', 'GCC-11.2.0', 'intel-compilers-2021.4.0']
    [main_tc |-> <<"2","0","2","1","b">>,
     sub_tc |-> << <<"G","C","C","c","o","r","e","-","1","1",".","2",".","0">>,
                 <<"G","C","C","-","1","1",".","2",".","0">>,
                 <<"i","n","t","e","l","-","c","o","m","p","i","l","e","r","s","-","2","0","2","1",".","4",".","0">> >>],
    \* '2021a': ['GCCcore-10.3.0', 'GCC-10.3.0', 'intel-compilers-2021.2.0']
    [main_tc |-> <<"2","0","2","1","a">>,
     sub_tc |-> << <<"G","C","C","c","o","r","e","-","1","0",".","3",".","0">>,
                 <<"G","C","C","-","1","0",".","3",".","0">>,
                 <<"i","n","t","e","l","-","c","o","m","p","i","l","e","r","s","-","2","0","2","1",".","2",".","0">> >>],
    \* '2020b': ['GCCcore-10.2.0', 'GCC-10.2.0', 'iccifort-2020.4.304']
    [main_tc |-> <<"2","0","2","0","b">>,
     sub_tc |-> << <<"G","C","C","c","o","r","e","-","1","0",".","2",".","0">>,
                 <<"G","C","C","-","1","0",".","2",".","0">>,
                 <<"i","c","c","i","f","o","r","t","-","2","0","2","0",".","4",".","3","0","4">> >>],
    \* '2020a': ['GCCcore-9.3.0', 'GCC-9.3.0', 'iccifort-2020.1.217']
    [main_tc |-> <<"2","0","2","0","a">>,
     sub_tc |-> << <<"G","C","C","c","o","r","e","-","9",".","3",".","0">>,
                 <<"G","C","C","-","9",".","3",".","0">>,
                 <<"i","c","c","i","f","o","r","t","-","2","0","2","0",".","1",".","2","1","7">> >>],
    \* '2019b': ['GCCcore-8.3.0', 'GCC-8.3.0', 'iccifort-2019.5.281']
    [main_tc |-> <<"2","0","1","9","b">>,
     sub_tc |-> << <<"G","C","C","c","o","r","e","-","8",".","3",".","0">>,
                 <<"G","C","C","-","8",".","3",".","0">>,
                 <<"i","c","c","i","f","o","r","t","-","2","0","1","9",".","5",".","2","8","1">> >>],
    \* '2019a': ['GCCcore-8.2.0', 'GCC-8.2.0-2.31.1', 'iccifort-2019.1.144-GCC-8.2.0-2.31.1']
    [main_tc |-> <<"2","0","1","9","a">>,
     sub_tc |-> << <<"G","C","C","c","o","r","e","-","8",".","2",".","0">>,
                 <<"G","C","C","-","8",".","2",".","0","-","2",".","3","1",".","1">>,
                 <<"i","c","c","i","f","o","r","t","-","2","0","1","9",".","1",".","1","4","4","-","G","C","C","-","8",".","2",".","0","-","2",".","3","1",".","1">> >>],
    \* '2018b': ['GCCcore-7.3.0', 'GCC-7.3.0-2.30', 'iccifort-2018.3.222-GCC-7.3.0-2.30']
    [main_tc |-> <<"2","0","1","8","b">>,
     sub_tc |-> << <<"G","C","C","c","o","r","e","-","7",".","3",".","0">>,
                 <<"G","C","C","-","7",".","3",".","0","-","2",".","3","0">>,
                 <<"i","c","c","i","f","o","r","t","-","2","0","1","8",".","3",".","2","2","2","-","G","C","C","-","7",".","3",".","0","-","2",".","3","0">> >>]
  >>

\* the table rows, in definition order, one of whose components is found
SubtoolchainHits(easyconfig) ==
    {i \in 1..Len(SUBTOOLCHAINS) :
        \E k \in 1..Len(SUBTOOLCHAINS[i].sub_tc) :
            re_search(SUBTOOLCHAINS[i].sub_tc[k], easyconfig)}

\* the for loop with its break: the first row with a hit, None without one
lookup_subtoolchain(easyconfig) ==
    LET hits == SubtoolchainHits(easyconfig)
    IN  IF hits = {} THEN None
        ELSE PyStr(SUBTOOLCHAINS[CHOOSE i \in hits : \A j \in hits : i <= j].main_tc)

LogError(what) == [level |-> "error", msg |-> what]
LogDebug(what) == [level |-> "debug", msg |-> what]

\* a variant that consults the sub-toolchain table before the labels
set_toolchain_generation_subtc_first(easyconfig, user_toolchain) ==
    IF user_toolchain # <<>>
    THEN IF re_match_anchored(TOOLCHAIN_FORMAT, user_toolchain)
         THEN [ret |-> PyStr(user_toolchain), logged |-> <<LogDebug("Toolchain generation")>>]
         ELSE [ret |-> False,
               logged |-> <<LogError("Specified toolchain generation is not valid")>>]
    ELSE LET hit == lookup_subtoolchain(easyconfig)
             found_tc == {re_findall(TOOLCHAIN_FORMAT, easyconfig)[i] :
                             i \in 1..Len(re_findall(TOOLCHAIN_FORMAT, easyconfig))}
             toolchain_generation ==
                 IF hit # None THEN hit
                 ELSE IF Cardinality(found_tc) = 1
                      THEN PyStr(CHOOSE tc \in found_tc : TRUE)
                      ELSE None
         IN  [ret |-> toolchain_generation, logged |-> <<LogDebug("Toolchain generation")>>]

\* a variant that takes the first label found when several differ
set_toolchain_generation_pick_first(easyconfig, user_toolchain) ==
    IF user_toolchain # <<>>
    THEN IF re_match_anchored(TOOLCHAIN_FORMAT, user_toolchain)
         THEN [ret |-> PyStr(user_toolchain), logged |-> <<LogDebug("Toolchain generation")>>]
         ELSE [ret |-> False,
               logged |-> <<LogError("Specified toolchain generation is not valid")>>]
    ELSE LET found == re_findall(TOOLCHAIN_FORMAT, easyconfig)
             found_tc == {found[i] : i \in 1..Len(found)}
             toolchain_generation ==
                 IF Cardinality(found_tc) = 1
                 THEN PyStr(CHOOSE tc \in found_tc : TRUE)
                 ELSE IF found # <<>> THEN PyStr(found[1])
                      ELSE lookup_subtoolchain(easyconfig)
         IN  [ret |-> toolchain_generation, logged |-> <<LogDebug("Toolchain generation")>>]

\* the returned value and the messages logged on the way; a falsy
\* user_toolchain (False, None, '') is the empty string here
set_toolchain_generation(easyconfig, user_toolchain) ==
    IF user_toolchain # <<>>
    THEN IF re_match_anchored(TOOLCHAIN_FORMAT, user_toolchain)
         THEN [ret |-> PyStr(user_toolchain), logged |-> <<LogDebug("Toolchain generation")>>]
         ELSE [ret |-> False,
               logged |-> <<LogError("Specified toolchain generation is not valid")>>]
    ELSE LET found == re_findall(TOOLCHAIN_FORMAT, easyconfig)
             found_tc == {found[i] : i \in 1..Len(found)}
             toolchain_generation ==
                 IF Cardinality(found_tc) = 1
                 THEN PyStr(CHOOSE tc \in found_tc : TRUE)
                 ELSE lookup_subtoolchain(easyconfig)
         IN  [ret |-> toolchain_generation, logged |-> <<LogDebug("Toolchain generation")>>]

----------------------------------------------------------------------------
(* mk_job_name *)

\* os.path.basename: what follows the last '/'
basename(path) ==
    LET slashes == {i \in 1..Len(path) : path[i] = "/"}
    IN  IF slashes = {} THEN path
        ELSE SubSeq(path, (CHOOSE i \in slashes : \A j \in slashes : j <= i) + 1, Len(path))

\* where '$' matches: at the end of s, or before a newline that ends s
AtDollar(s, j) == j = Len(s) + 1 \/ (j = Len(s) /\ s[j] = "\n")

\* re.sub(pat + '$', '', s): the leftmost match is removed (a pattern that
\* ends in '$' and is not empty has no second match to its right)
re_sub_at_end(pat, s) ==
    LET matches == {i \in 1..(Len(s) - Len(pat) + 1) :
                       PatMatchesAt(pat, s, i) /\ AtDollar(s, i + Len(pat))}
    IN  IF matches = {} THEN s
        ELSE LET i == CHOOSE m \in matches : \A n \in matches : m <= n
             IN  SubSeq(s, 1, i - 1) \o SubSeq(s, i + Len(pat), Len(s))

\* the pattern '.eb' of re.sub('.eb$', ...)
EB_PATTERN == <<".", "e", "b">>

\* a variant that appends the target architecture even when it is the host's
mk_job_name_always_target(easyconfig, host_arch, target_arch) ==
    LET name0 == re_sub_at_end(EB_PATTERN, basename(easyconfig))
        name1 == IF host_arch # <<>> THEN name0 \o <<"-">> \o host_arch ELSE name0
    IN  IF target_arch # <<>> THEN name1 \o <<"-">> \o target_arch ELSE name1

\* a falsy target_arch (None, '') is the empty string here
mk_job_name(easyconfig, host_arch, target_arch) ==
    LET name0 == re_sub_at_end(EB_PATTERN, basename(easyconfig))
        name1 == IF host_arch # <<>> THEN name0 \o <<"-">> \o host_arch ELSE name0
    IN  IF target_arch # <<>> /\ target_arch # host_arch
        THEN name1 \o <<"-">> \o target_arch
        ELSE name1

----------------------------------------------------------------------------
(* submit_job_script and submit_build_job.  The strings of this part are  *)
(* sequences of pieces: a format string's literal text is one piece, and  *)
(* each argument contributes its own pieces.                              *)

\* " && ".join(parts)
RECURSIVE Join(_, _)
Join(sep, parts) ==
    IF parts = <<>> THEN <<>>
    ELSE IF Len(parts) = 1 THEN parts[1]
    ELSE parts[1] \o sep \o Join(sep, Tail(parts))

\* submit_cmd of submit_job_script
build_submit_cmd(job_file_, sub_options_, cluster_) ==
    Join(<<" && ">>,
         << <<"module --force purge">>,
            <<"module load cluster/">> \o cluster_,
            <<"sbatch --parsable ">> \o sub_options_ \o <<" ">> \o job_file_ >>)

\* BuildJob.substitute(job_options): the script text of the template
BuildJob_substitute(options_) == <<"#!/bin/bash ">> \o options_

\* the paths write_tempfile can hand out
TempPaths == {<<"/tmp/tmpA">>, <<"/tmp/tmpB">>}

Pair(code, text) == [ec |-> code, out |-> text]
NoPair == [ec |-> -1, out |-> <<"(nothing returned)">>]

----------------------------------------------------------------------------
(* Bounds and inputs *)

\* a configuration string is made of at most MaxFrags fragments
MaxFrags == 3
\* a configuration path has at most MaxPathLen characters
MaxPathLen == 4
\* an external process exits with a code in 0 .. MaxExitCode
MaxExitCode == 1

\* labels, components of the table, a component with other characters where
\* the table has dots, and filler
Fragments ==
    { <<"2","0","2","2","a">>,
      <<"2","0","2","1","b">>,
      <<"G","C","C","c","o","r","e","-","1","1",".","3",".","0">>,
      <<"G","C","C","-","1","2",".","3",".","0">>,
      <<"G","C","C","-","1","1","-","3","-","0">>,
      <<"/">>,
      <<"2","0">> }

ConfigStrings == {Concat(fs) : fs \in SeqsUpTo(Fragments, MaxFrags)}

Overrides ==
    { <<>>,
      <<"2","0","2","2","a">>,
      <<"2","0","1","9","b">>,
      <<"2","0","2","2">>,
      <<"2","0","2","2","a","\n">>,
      <<"x","2","0","2","2","a">>,
      <<"2","0","3","2","a">> }

PathChars == {"/", ".", "e", "b", "w", "\n"}

ExamplePath ==
    <<"/","p","a","t","h","/","t","o","/","f","o","o","-","2","0","2","2","a",".","e","b">>
Skylake == <<"s","k","y","l","a","k","e">>
Zen2 == <<"z","e","n","2">>

Paths == SeqsUpTo(PathChars, MaxPathLen) \cup {ExamplePath}
Archs == {<<>>, Skylake, Zen2}

Clusters == {<<"hydra">>, <<"chimera">>}
SubOptions == {<<>>, <<"--mem=4g">>}
JobOptions == {<<"job_name=foo">>, <<"job_name=bar">>}
Outputs == {<<"1234567">>, <<"sbatch: error">>}

----------------------------------------------------------------------------
(* The three calls at rest *)

TCIdle ==
    /\ tc_pc = "idle" /\ tc_easyconfig = <<>> /\ tc_user_toolchain = <<>>
    /\ tc_result = None /\ tc_log = <<>>

JNIdle ==
    /\ jn_pc = "idle" /\ jn_easyconfig = <<>> /\ jn_host_arch = <<>>
    /\ jn_target_arch = <<>> /\ jn_result = <<>>

SubIdle ==
    /\ pc = "idle" /\ entry = "none" /\ job_options = <<>> /\ keep_job = FALSE
    /\ sub_options = <<>> /\ cluster = <<>> /\ local_exec = FALSE /\ dry_run = FALSE
    /\ job_script = <<>> /\ job_file = <<>> /\ files = {} /\ spawned = <<>>
    /\ sjs_ret = NoPair /\ ret = NoPair /\ log = <<>> /\ steps = <<>>

----------------------------------------------------------------------------
(* Specification of set_toolchain_generation *)

InitTC ==
    /\ tc_pc = "call"
    /\ tc_easyconfig \in ConfigStrings
    /\ tc_user_toolchain \in Overrides
    /\ tc_result = None
    /\ tc_log = <<>>
    /\ JNIdle /\ SubIdle

SetToolchainGeneration ==
    /\ tc_pc = "call"
    /\ LET r == set_toolchain_generation(tc_easyconfig, tc_user_toolchain)
       IN  /\ tc_result' = r.ret
           /\ tc_log' = tc_log \o r.logged
    /\ tc_pc' = "returned"
    /\ UNCHANGED <<tc_easyconfig, tc_user_toolchain, jn_vars, sub_vars>>

NextTC == SetToolchainGeneration

SpecTC == InitTC /\ [][NextTC]_vars

----------------------------------------------------------------------------
(* Specification of mk_job_name *)

InitJN ==
    /\ jn_pc = "call"
    /\ jn_easyconfig \in Paths
    /\ jn_host_arch \in Archs
    /\ jn_target_arch \in Archs
    /\ jn_result = <<>>
    /\ TCIdle /\ SubIdle

MkJobName ==
    /\ jn_pc = "call"
    /\ jn_result' = mk_job_name(jn_easyconfig, jn_host_arch, jn_target_arch)
    /\ jn_pc' = "returned"
    /\ UNCHANGED <<jn_easyconfig, jn_host_arch, jn_target_arch, tc_vars, sub_vars>>

NextJN == MkJobName

SpecJN == InitJN /\ [][NextJN]_vars

----------------------------------------------------------------------------
(* Specification of submit_build_job and submit_job_script *)

\* a call of submit_build_job, or a call of submit_job_script on its own
\* with the path of a job script that exists
InitSub ==
    /\ entry \in {"submit_build_job", "submit_job_script"}
    /\ job_options \in JobOptions
    /\ keep_job \in BOOLEAN
    /\ sub_options \in SubOptions
    /\ cluster \in Clusters
    /\ local_exec \in BOOLEAN
    /\ dry_run \in BOOLEAN
    /\ job_script = <<>>
    /\ \/ /\ entry = "submit_build_job"
          /\ pc = "start"
          /\ job_file = <<>>
          /\ files \in {{}, {<<"/tmp/tmpA">>}}
       \/ /\ entry = "submit_job_script"
          /\ pc = "submit"
          /\ job_file = <<"/home/user/job.sh">>
          /\ files = {job_file}
    /\ spawned = <<>>
    /\ sjs_ret = NoPair
    /\ ret = NoPair
    /\ log = <<>>
    /\ steps = <<>>
    /\ TCIdle /\ JNIdle

\* job_script = BuildJob.substitute(job_options)
Render ==
    /\ pc = "start"
    /\ job_script' = BuildJob_substitute(job_options)
    /\ steps' = Append(steps, "render")
    /\ pc' = "rendered"
    /\ UNCHANGED <<entry, job_options, keep_job, sub_options, cluster, local_exec,
                   dry_run, job_file, files, spawned, sjs_ret, ret, log, tc_vars, jn_vars>>

\* job_file = write_tempfile(job_script): a new file under a name not in use
WriteTempfile ==
    /\ pc = "rendered"
    /\ \E f \in TempPaths \ files :
          /\ job_file' = f
          /\ files' = files \cup {f}
    /\ log' = Append(log, LogDebug("Job script written to"))
    /\ steps' = Append(steps, "write")
    /\ pc' = "submit"
    /\ UNCHANGED <<entry, job_options, keep_job, sub_options, cluster, local_exec,
                   dry_run, job_script, spawned, sjs_ret, ret, tc_vars, jn_vars>>

\* where control goes when submit_job_script returns
AfterSubmit == IF entry = "submit_job_script" THEN "returned" ELSE "submitted"

Process(runner_, cmd_) ==
    [runner |-> runner_, cmd |-> cmd_, status |-> "running", ec |-> -1, out |-> <<>>]

\* a variant in which the dry run goes on to run the command
SubmitDryRun_and_run ==
    /\ pc = "submit"
    /\ dry_run
    /\ LET submit_cmd == build_submit_cmd(job_file, sub_options, cluster)
           log_msg == <<"(DRY RUN) Job submission command: ">> \o submit_cmd
       IN  /\ log' = Append(log, [level |-> "info", msg |-> log_msg])
           /\ sjs_ret' = Pair(0, log_msg)
           /\ ret' = IF entry = "submit_job_script" THEN Pair(0, log_msg) ELSE ret
           /\ spawned' = Append(spawned,
                  [Process("RunNoShell", <<"bash -c \"">> \o submit_cmd \o <<"\"">>)
                      EXCEPT !.status = "exited", !.ec = 0])
    /\ steps' = Append(steps, "submit")
    /\ pc' = AfterSubmit
    /\ UNCHANGED <<entry, job_options, keep_job, sub_options, cluster, local_exec,
                   dry_run, job_script, job_file, files, tc_vars, jn_vars>>

\* submit_job_script, dry_run branch
SubmitDryRun ==
    /\ pc = "submit"
    /\ dry_run
    /\ LET submit_cmd == build_submit_cmd(job_file, sub_options, cluster)
           log_msg == <<"(DRY RUN) Job submission command: ">> \o submit_cmd
       IN  /\ log' = Append(log, [level |-> "info", msg |-> log_msg])
           /\ sjs_ret' = Pair(0, log_msg)
           /\ ret' = IF entry = "submit_job_script" THEN Pair(0, log_msg) ELSE ret
    /\ steps' = Append(steps, "submit")
    /\ pc' = AfterSubmit
    /\ UNCHANGED <<entry, job_options, keep_job, sub_options, cluster, local_exec,
                   dry_run, job_script, job_file, files, spawned, tc_vars, jn_vars>>

\* submit_job_script, local_exec branch: RunLoopStdout.run starts the process
SpawnLocal ==
    /\ pc = "submit"
    /\ ~dry_run
    /\ local_exec
    /\ log' = Append(log, LogDebug("Local execution of job script"))
    /\ spawned' = Append(spawned, Process("RunLoopStdout", <<"bash ">> \o job_file))
    /\ steps' = Append(steps, "submit")
    /\ pc' = "running"
    /\ UNCHANGED <<entry, job_options, keep_job, sub_options, cluster, local_exec,
                   dry_run, job_script, job_file, files, sjs_ret, ret, tc_vars, jn_vars>>

\* submit_job_script, remote branch: RunNoShell.run starts the process
SpawnRemote ==
    /\ pc = "submit"
    /\ ~dry_run
    /\ ~local_exec
    /\ LET submit_cmd == build_submit_cmd(job_file, sub_options, cluster)
       IN  /\ log' = Append(log, LogDebug("Job submission command"))
           /\ spawned' = Append(spawned,
                  Process("RunNoShell", <<"bash -c \"">> \o submit_cmd \o <<"\"">>))
    /\ steps' = Append(steps, "submit")
    /\ pc' = "running"
    /\ UNCHANGED <<entry, job_options, keep_job, sub_options, cluster, local_exec,
                   dry_run, job_script, job_file, files, sjs_ret, ret, tc_vars, jn_vars>>

\* a variant that runs the command once more after a failure
ProcessExit_retry ==
    /\ pc = "running"
    /\ \E code \in 0..MaxExitCode, text \in Outputs :
          LET n == Len(spawned)
              done == [spawned EXCEPT ![n].status = "exited", ![n].ec = code,
                                      ![n].out = text]
          IN  IF code # 0 /\ n = 1
              THEN /\ spawned' = Append(done, Process(spawned[n].runner, spawned[n].cmd))
                   /\ pc' = "running"
                   /\ UNCHANGED <<sjs_ret, ret>>
              ELSE /\ spawned' = done
                   /\ sjs_ret' = Pair(code, text)
                   /\ ret' = IF entry = "submit_job_script" THEN Pair(code, text) ELSE ret
                   /\ pc' = AfterSubmit
    /\ UNCHANGED <<entry, job_options, keep_job, sub_options, cluster, local_exec,
                   dry_run, job_script, job_file, files, log, steps, tc_vars, jn_vars>>

\* the process ends and run() returns its exit code and output, which
\* submit_job_script returns
ProcessExit ==
    /\ pc = "running"
    /\ \E code \in 0..MaxExitCode, text \in Outputs :
          LET n == Len(spawned)
          IN  /\ spawned' = [spawned EXCEPT ![n].status = "exited", ![n].ec = code,
                                            ![n].out = text]
              /\ sjs_ret' = Pair(code, text)
              /\ ret' = IF entry = "submit_job_script" THEN Pair(code, text) ELSE ret
    /\ pc' = AfterSubmit
    /\ UNCHANGED <<entry, job_options, keep_job, sub_options, cluster, local_exec,
                   dry_run, job_script, job_file, files, log, steps, tc_vars, jn_vars>>

\* os.remove(job_file) succeeds
RemoveOk ==
    /\ ~keep_job
    /\ files' = files \ {job_file}
    /\ UNCHANGED log

\* os.remove(job_file) raises OSError, which is IOError in Python 3: the
\* handler logs it and goes on
RemoveFails ==
    /\ ~keep_job
    /\ log' = Append(log, LogError("Failed to remove job file"))
    /\ UNCHANGED files

\* a variant that removes the file whatever keep_job says
Cleanup_ignores_keep_job ==
    /\ pc = "submitted"
    /\ \/ /\ files' = files \ {job_file}
          /\ UNCHANGED log
       \/ /\ log' = Append(log, LogError("Failed to remove job file"))
          /\ UNCHANGED files
    /\ steps' = Append(steps, "cleanup")
    /\ pc' = "cleaned"
    /\ UNCHANGED <<entry, job_options, keep_job, sub_options, cluster, local_exec,
                   dry_run, job_script, job_file, spawned, sjs_ret, ret, tc_vars, jn_vars>>

\* if not keep_job: try os.remove(job_file) except IOError
Cleanup ==
    /\ pc = "submitted"
    /\ IF keep_job
       THEN UNCHANGED <<files, log, steps>>
       ELSE /\ RemoveOk \/ RemoveFails
            /\ steps' = Append(steps, "cleanup")
    /\ pc' = "cleaned"
    /\ UNCHANGED <<entry, job_options, keep_job, sub_options, cluster, local_exec,
                   dry_run, job_script, job_file, spawned, sjs_ret, ret, tc_vars, jn_vars>>

RemovalFailed == \E i \in 1..Len(log) : log[i] = LogError("Failed to remove job file")

\* a variant that reports a failed removal as a failed submission
Return_fails_on_cleanup ==
    /\ pc = "cleaned"
    /\ ret' = IF RemovalFailed THEN Pair(1, sjs_ret.out) ELSE sjs_ret
    /\ pc' = "returned"
    /\ UNCHANGED <<entry, job_options, keep_job, sub_options, cluster, local_exec, dry_run,
                   job_script, job_file, files, spawned, sjs_ret, log, steps, tc_vars, jn_vars>>

\* return ec, out
Return ==
    /\ pc = "cleaned"
    /\ ret' = sjs_ret
    /\ pc' = "returned"
    /\ UNCHANGED <<entry, job_options, keep_job, sub_options, cluster, local_exec, dry_run,
                   job_script, job_file, files, spawned, sjs_ret, log, steps, tc_vars, jn_vars>>

NextSub ==
    \/ Render
    \/ WriteTempfile
    \/ SubmitDryRun
    \/ SpawnLocal
    \/ SpawnRemote
    \/ ProcessExit
    \/ Cleanup
    \/ Return

SpecSub == InitSub /\ [][NextSub]_vars

----------------------------------------------------------------------------
(* What the properties speak of, stated without the regular expressions *)

\* s has exactly the label shape: 20, a digit 1-2, a digit, then a or b
IsLabel(s) ==
    /\ Len(s) = 5
    /\ s[1] = "2" /\ s[2] = "0"
    /\ s[3] \in {"1", "2"}
    /\ s[4] \in Digits
    /\ s[5] \in {"a", "b"}

\* the distinct substrings of s that have the label shape
LabelsIn(s) == {l \in {SubSeq(s, i, i + 4) : i \in 1..(Len(s) - 4)} : IsLabel(l)}

\* the table rows one of whose components occurs in s character for character
LiteralHits(s) ==
    {i \in 1..Len(SUBTOOLCHAINS) :
        \E k \in 1..Len(SUBTOOLCHAINS[i].sub_tc) : IsSubstring(SUBTOOLCHAINS[i].sub_tc[k], s)}

FirstOf(rows) == CHOOSE i \in rows : \A j \in rows : i <= j

ErrorLogged == \E i \in 1..Len(tc_log) : tc_log[i].level = "error"

TCReturnedNoOverride == tc_pc = "returned" /\ tc_user_toolchain = <<>>

----------------------------------------------------------------------------
(* set_toolchain_generation *)

\* C1: without an override, a configuration string whose label-shaped
\* substrings are all one and the same label resolves to that label, whatever
\* sub-toolchain components the string holds.
C1_SingleLabelIsReturned ==
    (TCReturnedNoOverride /\ Cardinality(LabelsIn(tc_easyconfig)) = 1)
        => \A l \in LabelsIn(tc_easyconfig) : tc_result = PyStr(l)

\* the single label wins over a component of another generation
C1_Witness ==
    /\ TCReturnedNoOverride
    /\ Cardinality(LabelsIn(tc_easyconfig)) = 1
    /\ \E i \in LiteralHits(tc_easyconfig) : SUBTOOLCHAINS[i].main_tc \notin LabelsIn(tc_easyconfig)
    /\ tc_result = PyStr(CHOOSE l \in LabelsIn(tc_easyconfig) : TRUE)

\* C2: with a non-empty override the result is the override when the whole
\* override has exactly the label shape, and otherwise False with an error
\* logged; the configuration string plays no part.
C2_OverrideDecidesAlone ==
    (tc_pc = "returned" /\ tc_user_toolchain # <<>>)
        => IF IsLabel(tc_user_toolchain)
           THEN tc_result = PyStr(tc_user_toolchain) /\ ~ErrorLogged
           ELSE tc_result = False /\ ErrorLogged

\* C3: without an override and without a single label, the result is the
\* first table row, in definition order, one of whose components occurs as a
\* literal substring, and None when no component does.
C3_FirstLiteralComponent ==
    (TCReturnedNoOverride /\ Cardinality(LabelsIn(tc_easyconfig)) # 1)
        => IF LiteralHits(tc_easyconfig) = {}
           THEN tc_result = None
           ELSE tc_result = PyStr(SUBTOOLCHAINS[FirstOf(LiteralHits(tc_easyconfig))].main_tc)

----------------------------------------------------------------------------
(* mk_job_name *)

HostPart == IF jn_host_arch # <<>> THEN <<"-">> \o jn_host_arch ELSE <<>>

TargetPart ==
    IF jn_target_arch # <<>> /\ jn_target_arch # jn_host_arch
    THEN <<"-">> \o jn_target_arch
    ELSE <<>>

\* s ends in the three characters ".eb"
EndsInDotEb(s) == Len(s) >= 3 /\ SubSeq(s, Len(s) - 2, Len(s)) = <<".", "e", "b">>

C10_OnlyDotEbIsStripped ==
    jn_pc = "returned"
        => LET base == basename(jn_easyconfig)
               name == IF EndsInDotEb(base) THEN SubSeq(base, 1, Len(base) - 3) ELSE base
           IN  jn_result = name \o HostPart \o TargetPart

----------------------------------------------------------------------------
(* submit_job_script and submit_build_job *)

\* submit_job_script has returned
SubmitReturned == pc \in {"submitted", "cleaned", "returned"}

\* the remote submission command, written out
WouldBeCommand ==
    <<"module --force purge", " && ", "module load cluster/">> \o cluster
        \o <<" && ", "sbatch --parsable ">> \o sub_options \o <<" ">> \o job_file

\* C6: with dry_run set, whatever local_exec is, no process is spawned, the
\* exit code returned is 0 and the output returned contains the remote
\* submission command: purge, load cluster/<cluster>, sbatch --parsable
\* <sub_options> <job_file>, joined by " && ".
C6_DryRunSpawnsNothing ==
    dry_run
        => /\ spawned = <<>>
           /\ SubmitReturned
                 => /\ sjs_ret.ec = 0
                    /\ IsSubstring(WouldBeCommand, sjs_ret.out)
           /\ (pc = "returned" /\ entry = "submit_job_script") => ret = sjs_ret

C6_Witness ==
    /\ dry_run
    /\ local_exec
    /\ entry = "submit_job_script"
    /\ pc = "returned"
    /\ spawned = <<>>
    /\ ret.ec = 0
    /\ IsSubstring(WouldBeCommand, ret.out)

\* the one process a call without dry_run runs
ExpectedProcess ==
    IF local_exec
    THEN [runner |-> "RunLoopStdout", cmd |-> <<"bash ">> \o job_file]
    ELSE [runner |-> "RunNoShell", cmd |-> <<"bash -c \"">> \o WouldBeCommand \o <<"\"">>]

\* C7: with dry_run unset exactly one process is spawned, the local run of
\* the job script when local_exec is set and the remote submission command
\* otherwise, never a second one, and the pair returned is that process's
\* exit code and output unchanged, exit code 1 included.
C7_OneProcessVerbatim ==
    ~dry_run
        => /\ Len(spawned) <= 1
           /\ pc = "running"
                 => /\ Len(spawned) = 1
                    /\ spawned[1].status = "running"
           /\ SubmitReturned
                 => /\ Len(spawned) = 1
                    /\ spawned[1].runner = ExpectedProcess.runner
                    /\ spawned[1].cmd = ExpectedProcess.cmd
                    /\ spawned[1].status = "exited"
                    /\ sjs_ret = Pair(spawned[1].ec, spawned[1].out)
           /\ (pc = "returned" /\ entry = "submit_job_script")
                 => ret = Pair(spawned[1].ec, spawned[1].out)

C7_Witness ==
    /\ ~dry_run
    /\ entry = "submit_job_script"
    /\ pc = "returned"
    /\ Len(spawned) = 1
    /\ spawned[1].ec = 1
    /\ ret = Pair(1, spawned[1].out)

\* s is the beginning of t
IsPrefix(s, t) == Len(s) <= Len(t) /\ SubSeq(t, 1, Len(s)) = s

\* C8: submit_build_job renders, writes the temporary file, submits and
\* then cleans up, in that order; the file exists all through the
\* submission; after a successful submission without dry_run the file is
\* gone when keep_job is unset and the removal did not fail, and is still
\* there when keep_job is set.
C8_StepsInOrder ==
    entry = "submit_build_job"
        => /\ IsPrefix(steps, <<"render", "write", "submit", "cleanup">>)
           /\ pc \in {"submit", "running", "submitted"} => job_file \in files
           /\ (pc = "returned" /\ ~dry_run /\ ret.ec = 0)
                 => /\ keep_job => (job_file \in files /\ steps = <<"render", "write", "submit">>)
                    /\ (~keep_job /\ ~RemovalFailed)
                          => (job_file \notin files
                              /\ steps = <<"render", "write", "submit", "cleanup">>)

C8_Witness ==
    /\ entry = "submit_build_job"
    /\ pc = "returned"
    /\ ~dry_run
    /\ ret.ec = 0
    /\ ~keep_job
    /\ ~RemovalFailed
    /\ job_file \notin files
    /\ steps = <<"render", "write", "submit", "cleanup">>

\* C9: the pair submit_build_job returns is the pair the submission step
\* returned, whether the removal of the temporary file succeeded, failed
\* (logged and swallowed) or was skipped because keep_job is set.
C9_ReturnsSubmissionResult ==
    (entry = "submit_build_job" /\ pc = "returned")
        => /\ ret = sjs_ret
           /\ ~dry_run => ret = Pair(spawned[1].ec, spawned[1].out)
           /\ dry_run => ret.ec = 0

\* the removal failed and the successful submission is returned all the same
C9_Witness ==
    /\ entry = "submit_build_job"
    /\ pc = "returned"
    /\ ~keep_job
    /\ RemovalFailed
    /\ job_file \in files
    /\ ~dry_run
    /\ ret = Pair(0, spawned[1].out)

====
